---- MODULE Spec2Model ----
(***************************************************************************)
(* Model of the native addon hello.cc: the callback demo::Method, which    *)
(* greets its first argument, and demo::init, which registers it on the    *)
(* exports object.  The host (V8 / Node) is modelled as far as the two     *)
(* functions use it: argument access, ToString, the UTF-8 writer, the      *)
(* UTF-8 reader of String::NewFromUtf8 and the return-value slot.          *)
(*                                                                         *)
(* A JavaScript string is a sequence of UTF-16 code units, a std::string a *)
(* sequence of bytes.  Both are held as a record [head, pad, tail] that    *)
(* denotes  head \o (pad copies of the unit 'x') \o tail,  so that strings *)
(* of the host's maximal length are values of the model.  tail is empty    *)
(* whenever pad is 0.                                                      *)
(***************************************************************************)
EXTENDS Integers, Sequences, FiniteSets

\* ----------------------------------------------------------------- state
VARIABLES
    pc,        \* "unloaded", "idle", "called", "returned", "threw", or how the
               \* process died: "fatal", "terminate", "segfault"
    exports,   \* the properties of the exports object: [name, fn] records
    args,      \* the arguments of the call in progress
    retval,    \* the return-value slot of the call in progress
    sets,      \* how often the call in progress has set its return value
    queued,    \* how many callbacks the call in progress has left with the host
    response,  \* the std::string response of the call in progress
    lenient,   \* whether the host's UTF-8 reader takes surrogates as written
    memo       \* an earlier call, as its caller saw it

vars == <<pc, exports, args, retval, sets, queued, response, lenient, memo>>

\* ---------------------------------------------------------------- bounds
\* longest short string argument, in code units
MaxLen == 2
\* v8::String::kMaxLength, (1 << 28) - 16: the longest string the host makes
kMaxLength == 268435440

\* ------------------------------------------------------- strings, values
Flat(s) == [head |-> s, pad |-> 0, tail |-> <<>>]

Empty == Flat(<<>>)

StrLen(s) == Len(s.head) + s.pad + Len(s.tail)

\* the code units the short arguments are written in: U+0000, 'A', and the two
\* halves of U+1F600
Alphabet == {0, 65, 55357, 56832}

RECURSIVE SeqsUpTo(_, _)
SeqsUpTo(S, n) ==
    IF n = 0 THEN {<<>>}
    ELSE LET shorter == SeqsUpTo(S, n - 1)
         IN  shorter \cup {Append(q, x) : q \in shorter, x \in S}

\* U+00E9 alone and before a NUL, "world"
OtherStrings ==
    {Flat(<<233>>), Flat(<<65, 233, 0, 233>>), Flat(<<119, 111, 114, 108, 100>>)}

ShortStrings == {Flat(u) : u \in SeqsUpTo(Alphabet, MaxLen)} \cup OtherStrings

\* strings of about the host's maximal length: the longest argument the
\* call can answer, and one unit more
LongPads == {kMaxLength - 6, kMaxLength - 5}

\* what follows the padding: nothing, one byte, two bytes, a NUL and a byte
LongTails == {<<>>, <<65>>, <<233>>, <<0, 65>>}

LongStrings ==
    {[head |-> <<>>, pad |-> p, tail |-> t] : p \in LongPads, t \in LongTails}

Strings == ShortStrings \cup LongStrings

Str(s) == [t |-> "string", s |-> s, n |-> 0]
Num(n) == [t |-> "number", s |-> Empty, n |-> n]
Bool(b) == [t |-> "boolean", s |-> Empty, n |-> IF b THEN 1 ELSE 0]
\* an object whose toString() returns s
Obj(s) == [t |-> "object", s |-> s, n |-> 0]
Undefined == [t |-> "undefined", s |-> Empty, n |-> 0]
Null == [t |-> "null", s |-> Empty, n |-> 0]
\* a Symbol: ToString throws a TypeError
Symbol == [t |-> "symbol", s |-> Empty, n |-> 0]

NonStrings ==
    {Undefined, Null, Symbol, Bool(TRUE), Bool(FALSE), Num(0), Num(42), Num(-7),
     Obj(Flat(<<65>>)), Obj(Flat(<<65, 0, 65>>)), Obj(Flat(<<233>>))}

Values == {Str(s) : s \in Strings} \cup NonStrings

\* what a caller passes after the first argument
ExtraArgs == {<<>>, <<Str(Flat(<<65>>))>>, <<Undefined, Num(42)>>}

ArgLists == {<<>>} \cup {<<v>> \o e : v \in Values, e \in ExtraArgs}

\* -------------------------------------------------------------- the host
\* ArgAt reading the last argument instead of the one asked for
ArgAtLast(a, i) == IF Len(a) > 0 THEN a[Len(a)] ELSE Undefined

\* FunctionCallbackInfo::operator[]: undefined beyond the arguments passed
ArgAt(a, i) == IF i < Len(a) THEN a[i + 1] ELSE Undefined

RECURSIVE Digits(_)
Digits(n) ==
    IF n < 10 THEN <<48 + n>> ELSE Append(Digits(n \div 10), 48 + (n % 10))

NumberToString(n) == IF n < 0 THEN <<45>> \o Digits(-n) ELSE Digits(n)

\* Value::ToString(): the string form, or no string when the conversion throws
ValueToString(v) ==
    CASE v.t = "string"    -> [ok |-> TRUE, s |-> v.s]
      [] v.t = "object"    -> [ok |-> TRUE, s |-> v.s]
      [] v.t = "undefined" ->
            [ok |-> TRUE, s |-> Flat(<<117, 110, 100, 101, 102, 105, 110, 101, 100>>)]
      [] v.t = "null"      -> [ok |-> TRUE, s |-> Flat(<<110, 117, 108, 108>>)]
      [] v.t = "boolean"   ->
            [ok |-> TRUE,
             s |-> IF v.n = 1 THEN Flat(<<116, 114, 117, 101>>)
                   ELSE Flat(<<102, 97, 108, 115, 101>>)]
      [] v.t = "number"    -> [ok |-> TRUE, s |-> Flat(NumberToString(v.n))]
      [] OTHER             -> [ok |-> FALSE, s |-> Empty]

IsLead(c) == c >= 55296 /\ c <= 56319
IsTrail(c) == c >= 56320 /\ c <= 57343

EncodeUnit(c) ==
    IF c < 128 THEN <<c>>
    ELSE IF c < 2048 THEN <<192 + (c \div 64), 128 + (c % 64)>>
    ELSE <<224 + (c \div 4096), 128 + ((c \div 64) % 64), 128 + (c % 64)>>

EncodePair(lead, trail) ==
    LET cp == 65536 + (lead - 55296) * 1024 + (trail - 56320)
    IN  <<240 + (cp \div 262144), 128 + ((cp \div 4096) % 64),
          128 + ((cp \div 64) % 64), 128 + (cp % 64)>>

\* String::WriteUtf8 without REPLACE_INVALID_UTF8: a surrogate pair becomes
\* four bytes, a lone surrogate three
RECURSIVE WriteUtf8(_)
WriteUtf8(u) ==
    IF u = <<>> THEN <<>>
    ELSE IF Len(u) >= 2 /\ IsLead(u[1]) /\ IsTrail(u[2])
         THEN EncodePair(u[1], u[2]) \o WriteUtf8(SubSeq(u, 3, Len(u)))
         ELSE EncodeUnit(u[1]) \o WriteUtf8(Tail(u))

\* String::Utf8Value of a string: the buffer *nameFromArgs points at
Utf8Value(s) ==
    [head |-> WriteUtf8(s.head), pad |-> s.pad, tail |-> WriteUtf8(s.tail)]

\* strlen: the bytes before the first NUL
RECURSIVE UpToNul(_)
UpToNul(b) ==
    IF b = <<>> \/ Head(b) = 0 THEN <<>> ELSE <<Head(b)>> \o UpToNul(Tail(b))

HasNul(b) == \E i \in 1..Len(b) : b[i] = 0

\* StdString taking the buffer with its length, NULs included
StdStringWhole(b) == b

\* std::string(const char*): the C string a buffer starts with
StdString(b) ==
    IF HasNul(b.head) THEN Flat(UpToNul(b.head))
    ELSE [head |-> b.head, pad |-> b.pad, tail |-> UpToNul(b.tail)]

\* Hello without its trailing space
HelloNoSpace == <<104, 101, 108, 108, 111>>

\* "hello "
Hello == <<104, 101, 108, 108, 111, 32>>

\* Concat into a response that outlives the call: what an earlier call built
\* stays in front
ConcatStatic(lit, name) ==
    [head |-> (IF memo.seen THEN memo.ret.s.head ELSE <<>>) \o lit \o name.head,
     pad |-> name.pad, tail |-> name.tail]

\* operator+(const char*, const std::string&)
Concat(lit, name) == [head |-> lit \o name.head, pad |-> name.pad, tail |-> name.tail]

IsCont(b, i) == i <= Len(b) /\ b[i] >= 128 /\ b[i] <= 191

\* one step of the host's UTF-8 reader at the front of b: the code units read
\* and the bytes consumed; a byte that starts no sequence reads as U+FFFD.
\* lax: the reader takes the three-byte form of a surrogate as written
DecodeOne(b, lax) ==
    LET b1 == b[1]
        bad == [units |-> <<65533>>, used |-> 1]
    IN  IF b1 < 128 THEN [units |-> <<b1>>, used |-> 1]
        ELSE IF b1 >= 194 /\ b1 <= 223 /\ IsCont(b, 2)
             THEN [units |-> <<(b1 - 192) * 64 + (b[2] - 128)>>, used |-> 2]
        ELSE IF b1 >= 224 /\ b1 <= 239 /\ IsCont(b, 2) /\ IsCont(b, 3)
             THEN LET cp == (b1 - 224) * 4096 + (b[2] - 128) * 64 + (b[3] - 128)
                  IN  IF cp < 2048 THEN bad
                      ELSE IF (IsLead(cp) \/ IsTrail(cp)) /\ ~lax THEN bad
                      ELSE [units |-> <<cp>>, used |-> 3]
        ELSE IF b1 >= 240 /\ b1 <= 244 /\ IsCont(b, 2) /\ IsCont(b, 3) /\ IsCont(b, 4)
             THEN LET cp == (b1 - 240) * 262144 + (b[2] - 128) * 4096
                            + (b[3] - 128) * 64 + (b[4] - 128)
                  IN  IF cp < 65536 \/ cp > 1114111 THEN bad
                      ELSE [units |-> <<55296 + ((cp - 65536) \div 1024),
                                        56320 + ((cp - 65536) % 1024)>>,
                            used |-> 4]
        ELSE bad

Byte == 0..255

\* the host's UTF-8 reader over the bytes b
ReadUtf8[b \in Seq(Byte), lax \in BOOLEAN] ==
    IF b = <<>> THEN <<>>
    ELSE DecodeOne(b, lax).units
            \o ReadUtf8[SubSeq(b, DecodeOne(b, lax).used + 1, Len(b)), lax]

\* Nan::New(std::string) = String::NewFromUtf8: no string when the bytes are
\* more than kMaxLength
NanNew(r, lax) ==
    IF StrLen(r) > kMaxLength THEN [ok |-> FALSE, s |-> Empty]
    ELSE [ok |-> TRUE,
          s |-> [head |-> ReadUtf8[r.head, lax], pad |-> r.pad,
                 tail |-> ReadUtf8[r.tail, lax]]]

\* ----------------------------------------------------------- the program
NoMemo == [seen |-> FALSE, args |-> <<>>, ret |-> Undefined]

\* Object::Set: the property is added, or replaced when there is one
SetProperty(obj, name, fn) ==
    {p \in obj : p.name # name} \cup {[name |-> name, fn |-> fn]}

Init ==
    /\ pc = "unloaded"
    /\ exports = {}
    /\ args = <<>>
    /\ retval = Undefined
    /\ sets = 0
    /\ queued = 0
    /\ response = Empty
    /\ lenient \in BOOLEAN
    /\ memo = NoMemo

\* init with the name and the function's identifier exchanged
initOtherName ==
    /\ pc = "unloaded"
    /\ exports' = SetProperty(exports, "Method", "Method")
    /\ pc' = "idle"
    /\ UNCHANGED <<args, retval, sets, queued, response, lenient, memo>>

\* void init(Local<Object> exports), run once by NODE_MODULE at load
init ==
    /\ pc = "unloaded"
    /\ exports' = SetProperty(exports, "hello", "Method")
    /\ pc' = "idle"
    /\ UNCHANGED <<args, retval, sets, queued, response, lenient, memo>>

\* std::string(nullptr), when ToString gave no string: undefined behaviour,
\* an uncaught std::logic_error or a fault in strlen
NullStringOutcomes == {"terminate", "segfault"}

\* ToLocalChecked() on no string: the host aborts, or (assertions compiled
\* out, before MaybeLocal) the call returns with a RangeError pending
NoStringOutcomes == {"fatal", "threw"}

\* Method setting its return value a second time from a callback it leaves
\* with the host
MethodDeferred(a, len) ==
    LET str == ValueToString(ArgAt(a, 0))
    IN  IF ~str.ok
        THEN {[status |-> o, ret |-> Undefined, sets |-> 0, queued |-> 0,
               response |-> Empty] : o \in NullStringOutcomes}
        ELSE LET resp == Concat(Hello, StdString(Utf8Value(str.s)))
                 made == NanNew(resp, len)
             IN  IF ~made.ok
                 THEN {[status |-> o, ret |-> Undefined,
                        sets |-> IF o = "threw" THEN 1 ELSE 0, queued |-> 0,
                        response |-> resp] : o \in NoStringOutcomes}
                 ELSE {[status |-> "returned", ret |-> Undefined, sets |-> 0,
                        queued |-> 1, response |-> resp]}

\* void Method(const FunctionCallbackInfo<Value>& args): what a call with the
\* arguments a can end in
Method(a, len) ==
    LET str == ValueToString(ArgAt(a, 0))
    IN  IF ~str.ok
        THEN {[status |-> o, ret |-> Undefined, sets |-> 0, queued |-> 0,
               response |-> Empty] : o \in NullStringOutcomes}
        ELSE LET nameFromArgs == Utf8Value(str.s)
                 name == StdString(nameFromArgs)
                 resp == Concat(Hello, name)
                 made == NanNew(resp, len)
             IN  IF ~made.ok
                 THEN {[status |-> o, ret |-> Undefined,
                        sets |-> IF o = "threw" THEN 1 ELSE 0, queued |-> 0,
                        response |-> resp] : o \in NoStringOutcomes}
                 ELSE {[status |-> "returned", ret |-> Str(made.s), sets |-> 1,
                        queued |-> 0, response |-> resp]}

\* the host calls exports.hello(a...)
HostCall(a) ==
    /\ pc = "idle"
    /\ [name |-> "hello", fn |-> "Method"] \in exports
    /\ pc' = "called"
    /\ args' = a
    /\ retval' = Undefined
    /\ sets' = 0
    /\ queued' = 0
    /\ response' = Empty
    /\ UNCHANGED <<exports, lenient, memo>>

\* MethodCall leaving the response on the object it was called on as well
MethodCallOnHolder ==
    /\ pc = "called"
    /\ \E e \in Method(args, lenient) :
          /\ pc' = e.status
          /\ retval' = e.ret
          /\ sets' = sets + e.sets
          /\ queued' = queued + e.queued
          /\ response' = e.response
    /\ exports' = SetProperty(exports, "response", "String")
    /\ UNCHANGED <<args, lenient, memo>>

\* the body of Method runs
MethodCall ==
    /\ pc = "called"
    /\ \E e \in Method(args, lenient) :
          /\ pc' = e.status
          /\ retval' = e.ret
          /\ sets' = sets + e.sets
          /\ queued' = queued + e.queued
          /\ response' = e.response
    /\ UNCHANGED <<exports, args, lenient, memo>>

\* the caller takes the result
HostReturn ==
    /\ pc = "returned"
    /\ pc' = "idle"
    /\ args' = <<>>
    /\ retval' = Undefined
    /\ sets' = 0
    /\ queued' = 0
    /\ response' = Empty
    /\ UNCHANGED <<exports, lenient, memo>>

\* the caller takes the result and keeps it, with the arguments it passed, to
\* compare with a later call's
HostKeep ==
    /\ pc = "returned"
    /\ ~memo.seen
    /\ memo' = [seen |-> TRUE, args |-> args, ret |-> retval]
    /\ pc' = "idle"
    /\ args' = <<>>
    /\ retval' = Undefined
    /\ sets' = 0
    /\ queued' = 0
    /\ response' = Empty
    /\ UNCHANGED <<exports, lenient>>

\* the caller catches the exception of a call that threw
HostCatch ==
    /\ pc = "threw"
    /\ pc' = "idle"
    /\ args' = <<>>
    /\ retval' = Undefined
    /\ sets' = 0
    /\ queued' = 0
    /\ response' = Empty
    /\ UNCHANGED <<exports, lenient, memo>>

Next ==
    \/ init
    \/ \E a \in ArgLists : HostCall(a)
    \/ MethodCall
    \/ HostReturn
    \/ HostKeep
    \/ HostCatch

Spec == Init /\ [][Next]_vars

\* the program with a caller that keeps no results
CallNext ==
    \/ init
    \/ \E a \in ArgLists : HostCall(a)
    \/ MethodCall
    \/ HostReturn
    \/ HostCatch

\* the host runs a call it has begun: Method is called on the host's thread
\* and nothing else runs until it is back
FairSpec == Init /\ [][CallNext]_vars /\ WF_vars(MethodCall)

\* ------------------------------------------------------------ the claims
Ended == {"returned", "threw", "fatal", "terminate", "segfault"}

\* the call in progress was given a string as its first argument
StringCall == Len(args) >= 1 /\ args[1].t = "string"

\* "hello " followed by the string s
HelloPlus(s) == [head |-> <<104, 101, 108, 108, 111, 32>> \o s.head,
                 pad |-> s.pad, tail |-> s.tail]

\* C1: for any string s, a call of hello with s returns exactly "hello "
\* followed by s
ClaimC1 ==
    (pc = "returned" /\ StringCall) => retval = Str(HelloPlus(args[1].s))

\* C2: a call with the empty string returns exactly the six characters "hello "
InvC2 ==
    (pc \in Ended /\ StringCall /\ args[1].s = Empty) =>
        /\ pc = "returned"
        /\ retval = Str(Flat(<<104, 101, 108, 108, 111, 32>>))
        /\ StrLen(retval.s) = 6

WitnessC2 == pc = "returned" /\ StringCall /\ args[1].s = Empty

\* C3: two calls with the same arguments return equal values, whatever calls
\* were made before or between them
InvC3 ==
    (pc = "returned" /\ memo.seen /\ memo.args = args) => retval = memo.ret

WitnessC3 ==
    /\ pc = "returned"
    /\ memo.seen
    /\ memo.args = args
    /\ StringCall
    /\ StrLen(args[1].s) > 0

\* C4: a call changes neither its arguments nor the exports object nor anything
\* else that outlives it; it writes its return-value slot only, and the value
\* it returns is none of its arguments
FrameC4 ==
    [][pc = "called" =>
          /\ exports' = exports
          /\ args' = args
          /\ memo' = memo
          /\ lenient' = lenient
          /\ (pc' = "returned" =>
                /\ retval'.t = "string"
                /\ \A i \in 1..Len(args) : retval' # args[i])]_vars

WitnessC4 == pc = "returned" /\ StringCall /\ retval # Undefined

\* C5: before init no property "hello" is on exports; after init exports.hello
\* is Method and exports has no other property
InvC5 ==
    /\ pc = "unloaded" => \A p \in exports : p.name # "hello"
    /\ pc # "unloaded" => exports = {[name |-> "hello", fn |-> "Method"]}

WitnessC5 == pc = "idle" /\ [name |-> "hello", fn |-> "Method"] \in exports

\* C6: a call with a string argument never ends in an error: it returns, and
\* what it returns is a string
ClaimC6 ==
    (pc \in Ended /\ StringCall) => (pc = "returned" /\ retval.t = "string")

\* C7: a call with a string argument comes to its end, and when it is back
\* with the host it has set the return value exactly once and has left no
\* callback behind
LiveC7 ==
    (pc = "called" /\ StringCall) ~>
        /\ pc \in Ended
        /\ pc \in {"returned", "threw"} => (sets = 1 /\ queued = 0)

WitnessC7 == pc = "returned" /\ StringCall /\ sets = 1 /\ queued = 0

\* C8: a call with a value that is no string, and whose conversion succeeds,
\* returns "hello " followed by the string form of the value
ClaimC8 ==
    LET v == IF Len(args) >= 1 THEN args[1] ELSE Undefined
    IN  (pc \in Ended /\ v.t \notin {"string", "symbol"}) =>
            (pc = "returned" /\ retval = Str(HelloPlus(ValueToString(v).s)))

\* C8, the call without arguments: it returns "hello undefined"
ZeroArgsC8 ==
    (pc \in Ended /\ args = <<>>) =>
        /\ pc = "returned"
        /\ retval = Str(Flat(<<104, 101, 108, 108, 111, 32,
                               117, 110, 100, 101, 102, 105, 110, 101, 100>>))

\* the bytes c are the bytes of u before its first NUL
CutAtNul(c, u) ==
    /\ ~HasNul(c.head) /\ ~HasNul(c.tail)
    /\ \/ /\ c.head = u.head /\ c.pad = u.pad
          /\ Len(c.tail) <= Len(u.tail)
          /\ c.tail = SubSeq(u.tail, 1, Len(c.tail))
          /\ (Len(c.tail) < Len(u.tail) => u.tail[Len(c.tail) + 1] = 0)
       \/ /\ c.pad = 0 /\ c.tail = <<>>
          /\ Len(c.head) < Len(u.head)
          /\ c.head = SubSeq(u.head, 1, Len(c.head))
          /\ u.head[Len(c.head) + 1] = 0

\* C9: a call that returns has built "hello " followed by the UTF-8 form of
\* the converted first argument up to its first NUL byte: 6 bytes more than
\* that cut name, and at most 6 more than the whole UTF-8 form; the value
\* returned begins with "hello "
InvC9 ==
    pc = "returned" =>
        LET v == IF Len(args) >= 1 THEN args[1] ELSE Undefined
            u == Utf8Value(ValueToString(v).s)
            rest == [head |-> SubSeq(response.head, 7, Len(response.head)),
                     pad |-> response.pad, tail |-> response.tail]
        IN  /\ Len(response.head) >= 6
            /\ SubSeq(response.head, 1, 6) = <<104, 101, 108, 108, 111, 32>>
            /\ CutAtNul(rest, u)
            /\ StrLen(response) = 6 + StrLen(rest)
            /\ StrLen(response) <= 6 + StrLen(u)
            /\ retval.t = "string"
            /\ Len(retval.s.head) >= 6
            /\ SubSeq(retval.s.head, 1, 6) = <<104, 101, 108, 108, 111, 32>>

WitnessC9 ==
    /\ pc = "returned"
    /\ StringCall
    /\ HasNul(Utf8Value(args[1].s).head)
    /\ StrLen(response) > 6
    /\ StrLen(response) < 6 + StrLen(Utf8Value(args[1].s))

\* C10: two calls whose argument lists agree on the first argument return the
\* same value, however many arguments follow and whatever they are
InvC10 ==
    (/\ pc = "returned" /\ memo.seen
     /\ Len(args) >= 1 /\ Len(memo.args) >= 1
     /\ memo.args[1] = args[1]) => retval = memo.ret

WitnessC10 ==
    /\ pc = "returned" /\ memo.seen
    /\ Len(args) >= 1 /\ Len(memo.args) >= 1
    /\ memo.args[1] = args[1]
    /\ Len(memo.args) # Len(args)
    /\ Len(args) = 3

====
